---- MODULE Spec2Model ----
(***************************************************************************)
(* QRL command line interface (qrl/cli.py): the wallet commands            *)
(* (wallets, generate, recover, mnemonic) and the two-phase send flow      *)
(* (TransferCoins -> Transaction.sign -> PushTransaction).                 *)
(*                                                                         *)
(* qrl.core.Wallet and qrl.core.Transaction are used by cli.py but their   *)
(* code is not part of the slice; Wallet load/append/save, address         *)
(* derivation and Transaction.sign follow the written specification        *)
(* (sections 4.2, 4.3, 4.5, 5 and 6).                                      *)
(***************************************************************************)
EXTENDS Integers, Sequences, FiniteSets, TLC

\* ------------------------------------------------------------------ bounds
NumSeeds == 2          \* seeds are 1..NumSeeds
MaxIndex == 2          \* a send starts only below this OTS index

\* ------------------------------------------------------- program constants
HexSeedLen    == 96    \* cli.py:177
MnemonicWords == 32    \* cli.py:171
ShorPerQuanta == 10 ^ 8    \* cli.py:233  amount * 10 ** 8
RpcTimeout    == 5     \* cli.py:54, 67, 91-92, 244-245, 251-252  timeout=5

\* User-facing quantities are written as integer multiples of 10^-9 quanta,
\* one digit finer than the ledger scale, so that 1.000000001 is an input.
InputScale == 10 ^ 9

Seeds == 1 .. NumSeeds
\* Two send invocations that may overlap.
Flows == {"A", "B"}

VARIABLES
    wallet,      \* the wallet store: sequence of [address, index] (persisted)
    otsIndex,    \* the in-memory OTS index of each entry's KeyMaterial
    flows,       \* the send invocations in progress
    signedTxs,   \* every SignedTransaction produced: [address, index, n],
                 \* n-th signature of this address at this index
    last         \* the last wallet command run and what it did

vars == <<wallet, otsIndex, flows, signedTxs, last>>

\* ------------------------------------------------------------ pure helpers

\* AddressDeriver: deterministic, one address per seed.
QrlAddress(seed) == <<"Q", seed>>

\* get_new_address(seed): a fresh KeyMaterial, OTS index 0.
get_new_address(seed) == [address |-> QrlAddress(seed), index |-> 0]

Addresses(w) == { w[k].address : k \in DOMAIN w }

\* python int(): truncation toward zero of n / d, d > 0.
TruncDiv(n, d) == IF n >= 0 THEN n \div d ELSE -((-n) \div d)

\* click infers the option type from default=0: only integer literals parse.
click_int_ok(a) == a % InputScale = 0

\* amount_shor = int(amount * 10 ** 8): with a = amount * 10^9 the product
\* amount * 10^8 is a / (10^9 / 10^8), truncated toward zero by int().
to_shor(a) == TruncDiv(a, InputScale \div ShorPerQuanta)

\* ------------------------------------------------------------- wallet store

\* Wallet(): the bundle as loaded from the wallet store.
Wallet == wallet

\* Wallet.append(entry): stores the entry unless its Address is already in
\* the bundle (DuplicateAddress, bundle unchanged).
WalletAppendOk(w, e) == e.address \notin Addresses(w)

WalletAppend(w, e) == IF WalletAppendOk(w, e) THEN Append(w, e) ELSE w

\* ---------------------------------------------------------- wallet commands

NoAddress == <<"none", 0>>

\* What a wallet command did: its outcome, the address it derived, whether
\* it saved the wallet, the remote calls it issued, whether it derived a key;
\* and the inputs it ran with: the remote flag, the seed typed into recover
\* and the answer to its confirmation prompt, the position given to
\* mnemonic, the addresses and the balance answers the node returned.
LastOf(cmd, outcome, address, saved, calls, derived) ==
    [cmd |-> cmd, outcome |-> outcome, address |-> address,
     saved |-> saved, calls |-> calls, derived |-> derived,
     seed_type |-> "", len |-> 0, lines |-> << >>,
     remote |-> FALSE, confirm |-> FALSE, wallet_idx |-> 0,
     addresses |-> << >>, answers |-> << >>]

LastRecover(seed_type, len, outcome, address, saved, derived) ==
    [LastOf("recover", outcome, address, saved, 0, derived)
        EXCEPT !.seed_type = seed_type, !.len = len]

generate_ignores_remote(remote, seed) ==
    LET e == get_new_address(seed)
        ok == WalletAppendOk(Wallet, e)
    IN  /\ wallet' = WalletAppend(Wallet, e)
        /\ otsIndex' = IF ok THEN Append(otsIndex, e.index) ELSE otsIndex
        /\ last' = [LastOf("generate",
                           IF ok THEN "Appended" ELSE "DuplicateAddress",
                           e.address, ok, 0, TRUE)
                      EXCEPT !.remote = remote]

\* generate (cli.py 140-156)
generate(remote, seed) ==
    IF remote
    THEN /\ last' = [LastOf("generate", "Unsupported", NoAddress, FALSE, 0,
                            FALSE)
                       EXCEPT !.remote = remote]
         /\ UNCHANGED <<wallet, otsIndex>>
    ELSE LET e == get_new_address(seed)
             ok == WalletAppendOk(Wallet, e)
         IN  /\ wallet' = WalletAppend(Wallet, e)
             /\ otsIndex' = IF ok THEN Append(otsIndex, e.index) ELSE otsIndex
             /\ last' = [LastOf("generate",
                                IF ok THEN "Appended" ELSE "DuplicateAddress",
                                e.address, ok, 0, TRUE)
                           EXCEPT !.remote = remote]

Generate ==
    /\ \E remote \in BOOLEAN, seed \in Seeds : generate(remote, seed)
    /\ UNCHANGED <<flows, signedTxs>>

\* recover: the seed the user types, after seed.lower().strip():
\*   len      characters of a hexseed, or words of a mnemonic
\*   content  the seed it encodes, 0 when mnemonic2bin / hstr2bin cannot
\*            decode it
SeedLens(seed_type) ==
    IF seed_type = "mnemonic"
    THEN {MnemonicWords - 1, MnemonicWords, MnemonicWords + 1}
    ELSE {HexSeedLen - 1, HexSeedLen, HexSeedLen + 1}

recover_length_short(seed_type, len) ==
    IF seed_type = "mnemonic" THEN len < MnemonicWords ELSE len < HexSeedLen

\* cli.py 171 and 177: the length test of each seed type
recover_length_bad(seed_type, len) ==
    IF seed_type = "mnemonic" THEN len # MnemonicWords ELSE len # HexSeedLen

recover_is_duplicate_first(w, a) == Len(w) > 0 /\ w[1].address = a

recover_is_duplicate_never(w, a) == FALSE

\* cli.py 186-189: the recovered address is already in the wallet list
recover_is_duplicate(w, a) == \E k \in DOMAIN w : w[k].address = a

recover_append_front(w, e) == <<e>> \o w

\* cli.py 192: walletObj.address_bundle.append(addrBundle)
recover_append(w, e) == Append(w, e)

\* recover (cli.py 162-195)
recover(seed_type, len, content, confirm) ==
    IF recover_length_bad(seed_type, len)
    THEN /\ last' = LastRecover(seed_type, len,
                                IF seed_type = "mnemonic"
                                THEN "InvalidMnemonicWordCount"
                                ELSE "InvalidSeedLength",
                                NoAddress, FALSE, FALSE)
         /\ UNCHANGED <<wallet, otsIndex>>
    ELSE IF content = 0
    THEN \* mnemonic2bin / hstr2bin raises; nothing catches it
         /\ last' = LastRecover(seed_type, len, "DecodeError", NoAddress,
                              FALSE, FALSE)
         /\ UNCHANGED <<wallet, otsIndex>>
    ELSE LET walletObj == Wallet
             addrBundle == get_new_address(content)
         IN  IF recover_is_duplicate(walletObj, addrBundle.address)
             THEN /\ last' = LastRecover(seed_type, len, "DuplicateAddress",
                                         addrBundle.address, FALSE, TRUE)
                  /\ UNCHANGED <<wallet, otsIndex>>
             ELSE IF confirm
             THEN /\ wallet' = recover_append(walletObj, addrBundle)
                  /\ otsIndex' = Append(otsIndex, addrBundle.index)
                  /\ last' = [LastRecover(seed_type, len, "Saved",
                                          addrBundle.address, TRUE, TRUE)
                                EXCEPT !.confirm = confirm]
             ELSE /\ last' = [LastRecover(seed_type, len, "Declined",
                                          addrBundle.address, FALSE, TRUE)
                                EXCEPT !.confirm = confirm]
                  /\ UNCHANGED <<wallet, otsIndex>>

Recover ==
    /\ \E seed_type \in {"hexseed", "mnemonic"} :
         \E len \in SeedLens(seed_type), content \in {0} \cup Seeds,
            confirm \in BOOLEAN :
            recover(seed_type, len, content, confirm)
    /\ UNCHANGED <<flows, signedTxs>>

\* recover as the click command (cli.py 159-162): pass_context hands the
\* context to a callback that takes seed_type only; the call raises
\* TypeError before the prompt.
RecoverCommand ==
    /\ last' = LastOf("recover", "TypeError", NoAddress, FALSE, 0, FALSE)
    /\ UNCHANGED <<wallet, otsIndex, flows, signedTxs>>

\* ---------------------------------------------------- wallets and mnemonic

\* Balances a node may report, in shor.
Balances == {0, ShorPerQuanta + 1}

\* What the node may answer to GetLocalAddresses: the addresses of the
\* wallet it holds, here the first n derived addresses for some n.
NodeAddressLists ==
    { [k \in 1 .. n |-> QrlAddress(k)] : n \in 0 .. NumSeeds }

\* cli.py 81-84: balance /= 1e8 printed with eight decimals, or '?' when the
\* balance query raised.
BalanceShown(b) ==
    [known |-> TRUE, whole |-> b \div ShorPerQuanta, frac |-> b % ShorPerQuanta]

BalanceUnknown == [known |-> FALSE, whole |-> 0, frac |-> 0]

\* A GetAddressState query that timed out or raised.
NoAnswer == -1

\* The node's answer to GetLocalAddresses; ok is FALSE when the call raised.
NodeAnswers ==
    { [ok |-> TRUE, addresses |-> q] : q \in NodeAddressLists }
      \cup { [ok |-> FALSE, addresses |-> << >>] }

print_addresses_zero(addresses, answers) ==
    [k \in DOMAIN addresses |->
        [pos |-> k - 1, address |-> addresses[k],
         balance |-> IF answers[k] = NoAnswer THEN BalanceShown(0)
                     ELSE BalanceShown(answers[k])]]

\* _print_addresses (cli.py 72-84): one line per address, in order.
print_addresses(addresses, answers) ==
    [k \in DOMAIN addresses |->
        [pos |-> k - 1, address |-> addresses[k],
         balance |-> IF answers[k] = NoAnswer THEN BalanceUnknown
                     ELSE BalanceShown(answers[k])]]

Listing(remote, outcome, calls, addresses, answers, lines) ==
    [LastOf("wallets", outcome, NoAddress, FALSE, calls, FALSE)
        EXCEPT !.remote = remote, !.addresses = addresses,
               !.answers = answers, !.lines = lines]

\* wallets (cli.py 130-137) with _remote_print_wallet_list (97-99),
\* _admin_get_local_addresses (51-58) and _local_print_wallet_list (101-109).
\* node is the node's answer to GetLocalAddresses, answers its answers to
\* the balance queries.
wallets(remote, node, answers) ==
    IF remote
    THEN LET addresses == IF node.ok THEN node.addresses ELSE << >>
         IN  /\ DOMAIN answers = DOMAIN addresses
             /\ last' = Listing(TRUE,
                                IF node.ok THEN "Listed"
                                ELSE "ErrorConnecting",
                                1 + Len(addresses), addresses, answers,
                                print_addresses(addresses, answers))
    ELSE IF Len(Wallet) = 0
    THEN /\ DOMAIN answers = {}
         /\ last' = Listing(FALSE, "NoWallet", 0, << >>, << >>, << >>)
    ELSE LET addresses == [k \in DOMAIN Wallet |-> Wallet[k].address]
         IN  /\ DOMAIN answers = DOMAIN addresses
             /\ last' = Listing(FALSE, "Listed", Len(addresses),
                                addresses, answers,
                                print_addresses(addresses, answers))

BalanceAnswers(n) == [1 .. n -> Balances \cup {NoAnswer}]

Wallets ==
    /\ \/ \E node \in NodeAnswers :
            \E answers \in BalanceAnswers(Len(node.addresses)) :
               wallets(TRUE, node, answers)
       \/ \E answers \in BalanceAnswers(Len(Wallet)) :
            wallets(FALSE, [ok |-> FALSE, addresses |-> << >>], answers)
    /\ UNCHANGED <<wallet, otsIndex, flows, signedTxs>>

index_in_range_from_one(idx, n) == 0 < idx /\ idx < n

\* select by position (cli.py 116 and 207)
index_in_range(idx, n) == 0 <= idx /\ idx < n

\* select_wallet (cli.py 112-120): the entry at position walletnum (k is its
\* place in the sequence), or 'Invalid Wallet Number' and None.
select_wallet(walletObj, walletnum) ==
    IF index_in_range(walletnum, Len(walletObj))
    THEN [found |-> TRUE, k |-> walletnum + 1,
          address |-> walletObj[walletnum + 1].address]
    ELSE [found |-> FALSE, k |-> 0, address |-> NoAddress]

\* mnemonic (cli.py 198-213) with _admin_get_wallet (61-69): the admin stub
\* (qrl_pb2_grpc.py 246-256) has GetLocalAddresses only, so stub.GetWallet
\* raises AttributeError before any wallet-info request is sent.
mnemonic(wallet_idx, node) ==
    LET addresses == IF node.ok THEN node.addresses ELSE << >>
    IN  IF index_in_range(wallet_idx, Len(addresses))
        THEN last' = [LastOf("mnemonic", "AttributeError",
                             addresses[wallet_idx + 1], FALSE, 1, FALSE)
                        EXCEPT !.wallet_idx = wallet_idx,
                               !.addresses = addresses]
        ELSE last' = [LastOf("mnemonic", "IndexNotFound", NoAddress,
                             FALSE, 1, FALSE)
                        EXCEPT !.wallet_idx = wallet_idx,
                               !.addresses = addresses]

Mnemonic ==
    /\ \E wallet_idx \in -1 .. NumSeeds, node \in NodeAnswers :
         mnemonic(wallet_idx, node)
    /\ UNCHANGED <<wallet, otsIndex, flows, signedTxs>>

\* ------------------------------------------------------------------- send

\* Quantities the user may type for --amount and --fee, in units of 10^-9:
\* 0, 1, -1, 1.00000001 and 1.000000001 quanta for the amount, 0 and 0.5
\* quanta for the fee.
AmountInputs == {0, InputScale, -InputScale, InputScale + 10, InputScale + 1}
FeeInputs    == {0, InputScale \div 2}

NoReq == [amount |-> 0, fee |-> 0, xmss_pk |-> NoAddress, xmss_ots_index |-> -1]

FlowIdle ==
    [pc |-> "idle", sel |-> 0, amount |-> 0, req |-> NoReq,
     declared |-> -1, embedded |-> -1, readIdx |-> -1, signedIdx |-> -1,
     nReq |-> 0, nPush |-> 0, out |-> ""]

Startable(p) == flows[p].pc \in {"idle", "done"}

Begin(p, f) == flows' = [flows EXCEPT ![p] = f]

\* cli.py 219-220: --amount / --fee are integer options (default=0); a value
\* that is no integer literal is refused by the option parser and the body
\* of send does not run.
SendUsageError(p) ==
    /\ Startable(p)
    /\ \E amount \in AmountInputs, fee \in FeeInputs :
         /\ ~(click_int_ok(amount) /\ click_int_ok(fee))
         /\ Begin(p, [FlowIdle EXCEPT !.pc = "done", !.amount = amount,
                                      !.out = "UsageError"])
    /\ UNCHANGED <<wallet, otsIndex, signedTxs, last>>

\* cli.py 237-242 and 255-256: the module binds the name selected_wallet
\* nowhere, so building the request raises NameError inside the try block
\* and send prints the error.
SendNameError(p) ==
    /\ Startable(p)
    /\ \E amount \in AmountInputs, fee \in FeeInputs :
         /\ click_int_ok(amount) /\ click_int_ok(fee)
         /\ Begin(p, [FlowIdle EXCEPT !.pc = "done", !.out = "NameError"])
    /\ UNCHANGED <<wallet, otsIndex, signedTxs, last>>

\* cli.py 233-245 with selected_wallet bound to the wallet entry at position
\* sel (as select_wallet returns it, cli.py 112-120): the TransferCoins call
\* is issued with the entry's public key and current OTS index.
transfer_request(sel, amount, fee) ==
    [amount |-> to_shor(amount), fee |-> to_shor(fee),
     xmss_pk |-> wallet[sel].address, xmss_ots_index |-> otsIndex[sel]]

SendRequest(p) ==
    /\ Startable(p)
    /\ \E walletnum \in -1 .. NumSeeds :
         /\ select_wallet(wallet, walletnum).found
         /\ LET sel == select_wallet(wallet, walletnum).k
            IN  /\ otsIndex[sel] < MaxIndex
                /\ \E amount \in AmountInputs, fee \in FeeInputs :
                     /\ click_int_ok(amount) /\ click_int_ok(fee)
                     /\ Begin(p, [FlowIdle EXCEPT !.pc = "awaitTransfer",
                                      !.sel = sel, !.amount = amount,
                                      !.req = transfer_request(sel, amount, fee),
                                      !.declared = otsIndex[sel], !.nReq = 1])
    /\ UNCHANGED <<wallet, otsIndex, signedTxs, last>>

\* send has returned: what stays is what it printed and the calls it made
Done(f, out) ==
    [FlowIdle EXCEPT !.pc = "done", !.out = out, !.nReq = f.nReq,
                     !.nPush = f.nPush]

Finish(p, out) == flows' = [flows EXCEPT ![p] = Done(flows[p], out)]

times_out_never(timeout) == FALSE

\* f.result(timeout=5) (cli.py 245, 252): a wait with a timeout raises once
\* the timeout has run out, whether or not the node ever answers.
times_out(timeout) == timeout > 0

\* cli.py 245, 255-256: f.result(timeout=5) raises (timeout, connection
\* failure or an error status from the node); send prints the error.
TransferFailed(p) ==
    /\ flows[p].pc = "awaitTransfer"
    /\ \E e \in {"RemoteUnavailable", "RemoteRejected"} :
         /\ e = "RemoteUnavailable" => times_out(RpcTimeout)
         /\ Finish(p, e)
    /\ UNCHANGED <<wallet, otsIndex, signedTxs, last>>

TransferResponse_push(p) ==
    /\ flows[p].pc = "awaitTransfer"
    /\ \E e \in 0 .. MaxIndex :
         flows' = [flows EXCEPT ![p] = [flows[p] EXCEPT !.pc = "awaitPush",
                                            !.amount = 0, !.req = NoReq,
                                            !.embedded = e,
                                            !.nPush = flows[p].nPush + 1]]
    /\ UNCHANGED <<wallet, otsIndex, signedTxs, last>>

\* cli.py 245-247: the response arrives and the unsigned transaction is
\* rebuilt from it; the OTS index it embeds is whatever the node sent.
TransferResponse(p) ==
    /\ flows[p].pc = "awaitTransfer"
    /\ \E e \in 0 .. MaxIndex :
         flows' = [flows EXCEPT ![p] = [flows[p] EXCEPT !.pc = "parsed",
                                            !.amount = 0, !.req = NoReq,
                                            !.embedded = e]]
    /\ UNCHANGED <<wallet, otsIndex, signedTxs, last>>

\* Transaction.sign (cli.py 248), section 4.5 and 5: one sign per KeyMaterial
\* at a time; the template's index must be the KeyMaterial's current index.
sign_may_enter_always(p, sel) == TRUE

sign_may_enter(p, sel) ==
    \A q \in Flows \ {p} : ~(flows[q].pc = "inSign" /\ flows[q].sel = sel)

sign_precondition(embedded, current) == embedded = current

sign_advance_stuck(i) == i

\* the index after a signature with index i
sign_advance(i) == i + 1

sign_persist_skipped(w, sel, i) == w

\* the index-persistence hook: the store holds the advanced index
sign_persist(w, sel, i) == [w EXCEPT ![sel].index = i]

SignBegin(p) ==
    /\ flows[p].pc = "parsed"
    /\ sign_may_enter(p, flows[p].sel)
    /\ IF sign_precondition(flows[p].embedded, otsIndex[flows[p].sel])
       THEN flows' = [flows EXCEPT ![p] = [flows[p] EXCEPT !.pc = "inSign",
                                  !.readIdx = otsIndex[flows[p].sel]]]
       ELSE \* cli.py 255-256: the exception is caught and printed
            flows' = [flows EXCEPT ![p] =
                        [Done(flows[p], "IndexAlreadyConsumed")
                            EXCEPT !.sel = flows[p].sel,
                                   !.embedded = flows[p].embedded]]
    /\ UNCHANGED <<wallet, otsIndex, signedTxs, last>>

\* The signature is produced, the index advanced and persisted in one step;
\* then cli.py 249-251 issues the PushTransaction call.
SignCommit(p) ==
    /\ flows[p].pc = "inSign"
    /\ LET f == flows[p]
           i == f.readIdx
           a == wallet[f.sel].address
           had == {s \in signedTxs : s.address = a /\ s.index = i}
       IN  /\ signedTxs' = signedTxs \cup
                 {[address |-> a, index |-> i, n |-> Cardinality(had) + 1]}
           /\ otsIndex' = [otsIndex EXCEPT ![f.sel] = sign_advance(i)]
           /\ wallet' = sign_persist(wallet, f.sel, sign_advance(i))
           /\ flows' = [flows EXCEPT ![p] = [f EXCEPT !.pc = "awaitPush",
                                                 !.signedIdx = i,
                                                 !.nPush = f.nPush + 1]]
    /\ UNCHANGED last

\* cli.py 252-256: the push result is printed; an exception (timeout,
\* connection failure, rejection) is printed too. Either way send ends.
push_result_resend(f, r) ==
    IF r = "Accepted" THEN Done(f, r) ELSE [f EXCEPT !.nPush = f.nPush + 1]

push_result(f, r) == Done(f, r)

PushResponse(p) ==
    /\ flows[p].pc = "awaitPush"
    /\ \E r \in {"Accepted", "PushUnavailable", "PushRejected"} :
         /\ r = "PushUnavailable" => times_out(RpcTimeout)
         /\ flows' = [flows EXCEPT ![p] = push_result(flows[p], r)]
    /\ UNCHANGED <<wallet, otsIndex, signedTxs, last>>

\* The process dies and is started again: the sends in progress are gone and
\* the KeyMaterial is loaded from the wallet store.
Crash ==
    /\ \E p \in Flows : flows[p].pc # "idle"
    /\ flows' = [p \in Flows |-> FlowIdle]
    /\ otsIndex' = [k \in DOMAIN wallet |-> wallet[k].index]
    /\ UNCHANGED <<wallet, signedTxs, last>>

\* ------------------------------------------------------------ specification

LastNone ==
    [cmd |-> "none", outcome |-> "", address |-> NoAddress,
     saved |-> FALSE, calls |-> 0, derived |-> FALSE,
     seed_type |-> "", len |-> 0, lines |-> << >>,
     remote |-> FALSE, confirm |-> FALSE, wallet_idx |-> 0,
     addresses |-> << >>, answers |-> << >>]

\* The wallets a store can hold when the CLI starts: the first n derived
\* entries for some n, none used yet.
LoadedWallets ==
    { [k \in 1 .. n |-> get_new_address(k)] : n \in 0 .. NumSeeds }

InitWith(w) ==
    /\ wallet = w
    /\ otsIndex = [k \in DOMAIN w |-> w[k].index]
    /\ flows = [p \in Flows |-> FlowIdle]
    /\ signedTxs = {}
    /\ last = LastNone

SendBy(p) ==
    \/ SendUsageError(p)
    \/ SendNameError(p)
    \/ SendRequest(p)
    \/ TransferFailed(p)
    \/ TransferResponse(p)
    \/ SignBegin(p)
    \/ SignCommit(p)
    \/ PushResponse(p)

\* The send protocol: two overlapping send invocations over a loaded wallet.
Init == \E w \in LoadedWallets : InitWith(w)

Next ==
    \/ \E p \in Flows : SendBy(p)
    \/ Crash

Spec == Init /\ [][Next]_vars

\* What the scheduling guarantees of a send in progress: a wait for the
\* node ends at the latest when its timeout runs out (the node itself need
\* never answer), a sign that waits for the KeyMaterial gets it once it is
\* free, and a sign that has started runs to its end.
TransferTimeout(p) == TransferFailed(p) /\ flows'[p].out = "RemoteUnavailable"

PushTimeout(p) == PushResponse(p) /\ flows'[p].out = "PushUnavailable"

SendFairness ==
    \A p \in Flows :
        /\ WF_vars(TransferTimeout(p))
        /\ WF_vars(PushTimeout(p))
        /\ SF_vars(SignBegin(p))
        /\ WF_vars(SignCommit(p))

LiveSpec == Init /\ [][Next]_vars /\ SendFairness

\* The wallet commands, from an empty wallet.
CliInit == InitWith(<< >>)

WalletNext ==
    \/ Wallets
    \/ Generate
    \/ Recover
    \/ RecoverCommand
    \/ Mnemonic

WalletSpec == CliInit /\ [][WalletNext]_vars

\* The command line: every command, one at a time, from an empty wallet.
CliNext ==
    \/ WalletNext
    \/ SendBy("A")
    \/ Crash

CliSpec == CliInit /\ [][CliNext]_vars


\* ------------------------------------------------------------------ claims

SendOutcomes ==
    {"UsageError", "NameError", "RemoteUnavailable", "RemoteRejected",
     "IndexAlreadyConsumed", "Accepted", "PushUnavailable", "PushRejected"}

TypeOK ==
    /\ DOMAIN otsIndex = DOMAIN wallet
    /\ \A k \in DOMAIN wallet : wallet[k].index \in Nat /\ otsIndex[k] \in Nat
    /\ \A p \in Flows :
         /\ flows[p].pc \in {"idle", "awaitTransfer", "parsed", "inSign",
                             "awaitPush", "done"}
         /\ flows[p].pc = "done" => flows[p].out \in SendOutcomes
         /\ flows[p].sel \in {0} \cup DOMAIN wallet

Used(a, i) == \E s \in signedTxs : s.address = a /\ s.index = i

\* The step in which flow p leaves the wait for Transaction.sign.
SignAttempted(p) ==
    flows[p].pc = "parsed" /\ flows'[p].pc \in {"inSign", "done"}

C5_PushFailures == {"PushUnavailable", "PushRejected"}

C5_PushNeverRetried ==
    /\ [](\A p \in Flows : flows[p].nPush <= 1)
    /\ [][\A p \in Flows :
            (flows[p].pc = "awaitPush" /\ flows'[p] # flows[p]
               /\ flows'[p].pc # "idle")
            => (flows'[p].pc = "done" /\ flows'[p].nPush = 1
                  /\ flows'[p].out \in C5_PushFailures \cup {"Accepted"})]_vars

\* a push has failed after a successful sign and the invocation has ended
C5_Witness ==
    \E p \in Flows :
        /\ flows[p].pc = "done" /\ flows[p].out \in C5_PushFailures
        /\ flows[p].nPush = 1 /\ signedTxs # {}

\* C10 (as claimed): a user-facing amount of 1.00000001 reaches the node as
\* 100000001 in the TransferCoins request, and 1.000000001 issues no request.
C10_AmountExactOrFails ==
    \A p \in Flows :
        /\ (flows[p].pc # "idle" /\ flows[p].amount = InputScale + 10)
           => (flows[p].nReq = 1
                 /\ (flows[p].pc = "awaitTransfer"
                       => flows[p].req.amount = ShorPerQuanta + 1))
        /\ (flows[p].pc # "idle" /\ flows[p].amount = InputScale + 1)
           => flows[p].nReq = 0

\* The step is a run of command cmd (a run that repeats the previous
\* command with the same inputs and result changes nothing at all).
Ran(cmd) == last' # last /\ last'.cmd = cmd

\* C6: recovering a seed whose Address is already in the wallet is reported
\* as a duplicate and leaves the wallet as it was: same entries in the same
\* order, nothing appended, nothing saved.
C6_DuplicateRecoverRejected ==
    [][(Ran("recover") /\ last'.derived
          /\ last'.address \in Addresses(wallet))
       => (last'.outcome = "DuplicateAddress" /\ ~last'.saved
             /\ wallet' = wallet /\ otsIndex' = otsIndex)]_vars

\* the second derivation from a seed was refused
C6_Witness ==
    /\ last.cmd = "recover" /\ last.outcome = "DuplicateAddress"
    /\ last.address \in Addresses(wallet)

C8_WrongLength(seed_type, len) ==
    \/ seed_type = "mnemonic" /\ len # MnemonicWords
    \/ seed_type = "hexseed" /\ len # HexSeedLen

C8_WrongLengthRejected ==
    [][(Ran("recover") /\ C8_WrongLength(last'.seed_type, last'.len))
       => (/\ last'.outcome = IF last'.seed_type = "mnemonic"
                              THEN "InvalidMnemonicWordCount"
                              ELSE "InvalidSeedLength"
           /\ ~last'.derived /\ last'.calls = 0 /\ ~last'.saved
           /\ wallet' = wallet /\ otsIndex' = otsIndex)]_vars

\* recover has refused a mnemonic of 33 words
C8_Witness ==
    /\ last.cmd = "recover" /\ last.seed_type = "mnemonic"
    /\ last.len = MnemonicWords + 1
    /\ last.outcome = "InvalidMnemonicWordCount"

C12_UnknownBalanceConfined ==
    [][Ran("wallets") =>
         /\ DOMAIN last'.lines = DOMAIN last'.addresses
         /\ (~last'.remote /\ Len(wallet) > 0)
              => last'.addresses = [k \in DOMAIN wallet |-> wallet[k].address]
         /\ \A k \in DOMAIN last'.addresses :
              LET line == last'.lines[k]
                  answer == last'.answers[k]
              IN  /\ line.pos = k - 1
                  /\ line.address = last'.addresses[k]
                  /\ answer = NoAnswer
                       => (/\ ~line.balance.known
                           /\ \A b \in Balances : line.balance # BalanceShown(b))
                  /\ answer # NoAnswer
                       => (/\ line.balance.known
                           /\ line.balance.whole * ShorPerQuanta
                                 + line.balance.frac = answer)]_vars

\* a local listing of two addresses: the first balance query failed, the
\* second returned a zero balance, and both lines are shown
C12_Witness ==
    /\ last.cmd = "wallets" /\ ~last.remote /\ Len(last.lines) = 2
    /\ last.answers[1] = NoAnswer /\ ~last.lines[1].balance.known
    /\ last.answers[2] = 0 /\ last.lines[2].balance = BalanceShown(0)

\* C13: selecting by position gives the entry at that position exactly when
\* 0 <= index < len. For any other index (negative, len or more, any index
\* on an empty list) the selection reports the index as out of range and
\* yields no entry, and mnemonic makes no call after the address list.
C13_SelectInRangeOnly ==
    /\ [](\A n \in -1 .. Len(wallet) :
             LET e == select_wallet(wallet, n)
             IN  IF 0 <= n /\ n < Len(wallet)
                 THEN e.found /\ e.address = wallet[n + 1].address
                 ELSE ~e.found /\ e.address = NoAddress)
    /\ [][Ran("mnemonic") =>
            LET n == last'.wallet_idx
            IN  IF 0 <= n /\ n < Len(last'.addresses)
                THEN /\ last'.outcome # "IndexNotFound"
                     /\ last'.address = last'.addresses[n + 1]
                ELSE /\ last'.outcome = "IndexNotFound"
                     /\ last'.address = NoAddress
                     /\ last'.calls = 1]_vars

\* mnemonic was given the position just past the end of a non-empty list
C13_Witness ==
    /\ last.cmd = "mnemonic" /\ last.outcome = "IndexNotFound"
    /\ Len(last.addresses) > 0 /\ last.wallet_idx = Len(last.addresses)
    /\ Len(wallet) > 0

\* C14: every wait for the node is bounded by its timeout, so a send that
\* has issued a call always comes to an end (its result or error printed,
\* or the process gone), also when the node never answers.
C14_InProgress(p) ==
    flows[p].pc \in {"awaitTransfer", "parsed", "inSign", "awaitPush"}

C15_MnemonicDisplayed ==
    (/\ last.cmd = "mnemonic"
     /\ 0 <= last.wallet_idx /\ last.wallet_idx < Len(last.addresses))
    => (/\ last.outcome = "Displayed"
        /\ last.calls = 2
        /\ last.address = last.addresses[last.wallet_idx + 1])

\* C16: a send pushes only what it has signed, and signs only a template it
\* has received for its own request: the PushTransaction call is issued in
\* the step that signs, after one TransferCoins request of the same
\* invocation was answered. When the TransferCoins request fails (timeout,
\* connection failure, rejection) the invocation ends there: nothing is
\* signed or pushed, and the OTS indexes and the wallet are as before.
C16_TransferFailures == {"RemoteUnavailable", "RemoteRejected"}

C16_RequestSignPush ==
    /\ [](\A p \in Flows :
            /\ flows[p].nPush > 0 => flows[p].nReq = 1
            /\ flows[p].pc = "awaitPush"
                 => (/\ flows[p].embedded # -1
                     /\ flows[p].signedIdx = flows[p].embedded
                     /\ Used(wallet[flows[p].sel].address, flows[p].signedIdx))
            /\ (flows[p].pc = "done" /\ flows[p].out \in C16_TransferFailures)
                 => flows[p].nPush = 0)
    /\ [][\A p \in Flows :
            /\ flows'[p].nPush > flows[p].nPush
                 => (/\ flows[p].pc = "inSign" /\ flows[p].embedded # -1
                     /\ signedTxs' # signedTxs)
            /\ (flows[p].pc = "awaitTransfer" /\ flows'[p].pc = "done")
                 => (/\ flows'[p].out \in C16_TransferFailures
                     /\ flows'[p].nPush = 0
                     /\ signedTxs' = signedTxs
                     /\ otsIndex' = otsIndex /\ wallet' = wallet)]_vars

\* one send has gone through to its push while the other ended on a
\* rejected request, before any index of the wallet was used twice
C16_Witness ==
    \E p, q \in Flows :
        /\ flows[p].pc = "awaitPush" /\ flows[p].nReq = 1
        /\ flows[q].pc = "done" /\ flows[q].out = "RemoteRejected"
        /\ flows[q].nReq = 1 /\ flows[q].nPush = 0

\* C17 (as claimed): a send with a valid amount and fee that has ended
\* without any failure of the node (no timeout, no rejection, no template
\* for another index) has issued exactly one TransferCoins request and
\* exactly one PushTransaction call, and reports the node's acceptance.
C17_NodeFailures ==
    {"RemoteUnavailable", "RemoteRejected", "IndexAlreadyConsumed",
     "PushUnavailable", "PushRejected"}

C17_ValidSendAccepted ==
    \A p \in Flows :
        (/\ flows[p].pc = "done"
         /\ flows[p].out # "UsageError"
         /\ flows[p].out \notin C17_NodeFailures)
        => (/\ flows[p].out = "Accepted"
            /\ flows[p].nReq = 1 /\ flows[p].nPush = 1)

C19_RecoverSavesOnConfirm ==
    [][Ran("recover") =>
         /\ (last'.derived /\ last'.address \notin Addresses(wallet))
              => IF last'.confirm
                 THEN /\ last'.outcome = "Saved" /\ last'.saved
                      /\ wallet' = Append(wallet, [address |-> last'.address,
                                                   index |-> 0])
                      /\ otsIndex' = Append(otsIndex, 0)
                 ELSE /\ last'.outcome = "Declined" /\ ~last'.saved
                      /\ wallet' = wallet /\ otsIndex' = otsIndex
         /\ (wallet' # wallet \/ last'.saved)
              => (last'.confirm /\ last'.derived)]_vars

\* a confirmed recover has added a second entry behind the first
C19_Witness ==
    /\ last.cmd = "recover" /\ last.outcome = "Saved" /\ last.confirm
    /\ Len(wallet) = 2 /\ wallet[2].address = last.address

\* C20: with the remote flag set, generate reports that the command is
\* unsupported and does nothing else: no address is derived or appended,
\* the wallet and its indexes are as before, nothing is saved and no remote
\* call is made.
C20_RemoteGenerateNoEffect ==
    [][(Ran("generate") /\ last'.remote)
       => (/\ last'.outcome = "Unsupported"
           /\ ~last'.derived /\ last'.address = NoAddress
           /\ ~last'.saved /\ last'.calls = 0
           /\ wallet' = wallet /\ otsIndex' = otsIndex)]_vars

\* generate was refused for a remote wallet while a local wallet exists
C20_Witness ==
    /\ last.cmd = "generate" /\ last.remote /\ last.outcome = "Unsupported"
    /\ Len(wallet) > 0

====
